---- MODULE Spec2Model ----
(***************************************************************************)
(* Model of the Timeline interaction engine of the lyrics playground       *)
(* (src/unnamed/part_005, the Timeline component) and of its host          *)
(* (src/unnamed/part_004).                                                 *)
(*                                                                         *)
(* JavaScript numbers are modelled as exact rationals <<n, d>> in lowest   *)
(* terms with d > 0; a zero denominator encodes the IEEE values that a     *)
(* division by zero produces: <<0,0>> is NaN, <<1,0>> is +Infinity and     *)
(* <<-1,0>> is -Infinity.  Floating-point rounding is not modelled.        *)
(***************************************************************************)
EXTENDS Integers, Sequences, FiniteSets, TLC

(***************************************************************************)
(* Rational arithmetic                                                     *)
(***************************************************************************)
Abs(i) == IF i < 0 THEN -i ELSE i

Sign(i) == IF i < 0 THEN -1 ELSE IF i > 0 THEN 1 ELSE 0

RECURSIVE GCD(_, _)
GCD(a, b) == IF b = 0 THEN a ELSE GCD(b, a % b)

\* the number n/d (d # 0) in lowest terms
Norm(n, d) ==
    LET g == GCD(Abs(n), Abs(d))
    IN  IF d < 0 THEN <<-(n \div g), (-d) \div g>> ELSE <<n \div g, d \div g>>

Int2R(i) == <<i, 1>>

NaN == <<0, 0>>

IsFinite(a) == a[2] # 0

RAdd(a, b) ==
    LET g == GCD(a[2], b[2])
    IN  Norm(a[1] * (b[2] \div g) + b[1] * (a[2] \div g), (a[2] \div g) * b[2])

RNeg(a) == <<-a[1], a[2]>>

RSub(a, b) == RAdd(a, RNeg(b))

RMul(a, b) ==
    LET g1 == GCD(Abs(a[1]), b[2])
        g2 == GCD(Abs(b[1]), a[2])
    IN  IF a[1] = 0 \/ b[1] = 0 THEN <<0, 1>>
        ELSE <<(a[1] \div g1) * (b[1] \div g2), (a[2] \div g2) * (b[2] \div g1)>>

\* JavaScript division of two finite numbers
RDiv(a, b) ==
    IF b[1] = 0 THEN <<Sign(a[1]), 0>>
    ELSE RMul(a, Norm(b[2], b[1]))

\* comparisons of finite numbers
RLt(a, b) ==
    LET g == GCD(a[2], b[2])
    IN  a[1] * (b[2] \div g) < b[1] * (a[2] \div g)

RLe(a, b) == a = b \/ RLt(a, b)

\* Math.max and Math.min of two finite numbers
RMax(a, b) == IF RLt(a, b) THEN b ELSE a

RMin(a, b) == IF RLt(b, a) THEN b ELSE a

(***************************************************************************)
(* Bounds of the model                                                     *)
(***************************************************************************)
\* width in pixels of the timeline track (rect.width); rect.left is 0
TrackWidth == 6

\* gestures handled by one Timeline instance: wheel events, mouse-downs,
\* clicks, button presses and replacements of the ttml prop; mouse moves,
\* releases, leaves, the click paired with a release and the deferred
\* callbacks are not counted
MaxGestures == 3

\* gestures handled after the zoom-in button was pressed any number of times
MaxDeepGestures == 1

\* the pointer positions (clientX) at which mouse events are delivered
PointerXs == {0, TrackWidth \div 2, TrackWidth}

(***************************************************************************)
(* Documents: the ParsedLine sequences parseTTML returns for the ttml      *)
(* strings the host passes in; only begin and end are read by the engine.  *)
(***************************************************************************)
Line(b, e) == [begin |-> b, end |-> e]

Docs ==
    << <<Line(0, 2000), Line(2000, 5000)>>,
       <<Line(0, 2000), Line(1000, 3000), Line(3500, 4000)>>,
       <<Line(0, 0)>>,
       << >> >>

DocIds == 1..Len(Docs)

\* the null of selectedLine: no index, and not the -1 of findIndex
null == -2

NullTime == << >>

(***************************************************************************)
(* Strings.  A string is the sequence of its characters, each a string of  *)
(* length one, so that split, trim and the numeric prefix parsers of       *)
(* JavaScript are computed character by character.                         *)
(***************************************************************************)
\* an absent optional value (undefined), and a present one
undefined == << >>

Some(v) == <<v>>

Digits == <<"0", "1", "2", "3", "4", "5", "6", "7", "8", "9">>

IsDigit(c) == \E i \in 1..Len(Digits) : Digits[i] = c

DigitVal(c) == (CHOOSE i \in 1..Len(Digits) : Digits[i] = c) - 1

\* the characters String.prototype.trim, parseInt and parseFloat skip
WhiteSpace == {" ", "\n"}

Front(s) == SubSeq(s, 1, Len(s) - 1)

RECURSIVE Pow10(_)
Pow10(n) == IF n = 0 THEN 1 ELSE 10 * Pow10(n - 1)

RECURSIVE Concat(_)
Concat(ss) == IF ss = << >> THEN << >> ELSE Head(ss) \o Concat(Tail(ss))

RECURSIVE TrimStart(_)
TrimStart(s) ==
    IF s # << >> /\ Head(s) \in WhiteSpace THEN TrimStart(Tail(s)) ELSE s

RECURSIVE TrimEnd(_)
TrimEnd(s) ==
    IF s # << >> /\ s[Len(s)] \in WhiteSpace THEN TrimEnd(Front(s)) ELSE s

\* String.prototype.trim
Trim(s) == TrimEnd(TrimStart(s))

\* timeStr.split(":")
RECURSIVE Split(_)
Split(s) ==
    IF \A i \in 1..Len(s) : s[i] # ":" THEN <<s>>
    ELSE LET i == CHOOSE k \in 1..Len(s) : s[k] = ":" /\ \A j \in 1..(k - 1) : s[j] # ":"
         IN  <<SubSeq(s, 1, i - 1)>> \o Split(SubSeq(s, i + 1, Len(s)))

\* length of the longest prefix of s made of decimal digits
RECURSIVE DigitsPrefixLen(_)
DigitsPrefixLen(s) ==
    IF s = << >> \/ ~IsDigit(Head(s)) THEN 0 ELSE 1 + DigitsPrefixLen(Tail(s))

\* the number a sequence of decimal digits denotes
RECURSIVE DigitsValue(_)
DigitsValue(s) ==
    IF s = << >> THEN 0 ELSE 10 * DigitsValue(Front(s)) + DigitVal(s[Len(s)])

\* sign and unsigned rest of a numeric literal, leading white space skipped
Signed(s) ==
    LET t == TrimStart(s)
    IN  IF t # << >> /\ Head(t) \in {"-", "+"}
        THEN [sign |-> IF Head(t) = "-" THEN -1 ELSE 1, rest |-> Tail(t)]
        ELSE [sign |-> 1, rest |-> t]

\* parseInt(s) in radix 10: the longest numeric prefix, NaN without one
\* (a "0x" prefix, which selects radix 16, is outside the strings modelled)
parseInt(s) ==
    LET u == Signed(s)
        n == DigitsPrefixLen(u.rest)
    IN  IF n = 0 THEN NaN
        ELSE Int2R(u.sign * DigitsValue(SubSeq(u.rest, 1, n)))

\* parseFloat(s): digits, then optionally a point and digits; NaN when
\* neither part has a digit (exponents and "Infinity" are outside the
\* strings modelled)
parseFloat(s) ==
    LET u == Signed(s)
        n == DigitsPrefixLen(u.rest)
        rest == SubSeq(u.rest, n + 1, Len(u.rest))
        m == IF rest # << >> /\ Head(rest) = "." THEN DigitsPrefixLen(Tail(rest)) ELSE 0
    IN  IF n = 0 /\ m = 0 THEN NaN
        ELSE Norm(u.sign * (DigitsValue(SubSeq(u.rest, 1, n)) * Pow10(m)
                                + DigitsValue(SubSeq(rest, 2, m + 1))),
                  Pow10(m))

\* + and * of numbers, one of which may be NaN
JAdd(a, b) == IF IsFinite(a) /\ IsFinite(b) THEN RAdd(a, b) ELSE NaN

JMul(a, b) == IF IsFinite(a) /\ IsFinite(b) THEN RMul(a, b) ELSE NaN

\* a rounding that drops the fraction
MathTrunc(a) ==
    IF ~IsFinite(a) THEN a ELSE Int2R(a[1] \div a[2])

\* Math.round: the integer nearest to a, ties towards +Infinity; NaN for NaN
MathRound(a) ==
    IF ~IsFinite(a) THEN a ELSE Int2R((2 * a[1] + a[2]) \div (2 * a[2]))

\* lines 59-77
parseTime(timeStr) ==
    IF timeStr = << >> THEN Int2R(0)
    ELSE LET parts == Split(timeStr)
             seconds ==
                 IF Len(parts) = 3
                 THEN JAdd(JAdd(JMul(parseInt(parts[1]), Int2R(3600)),
                                JMul(parseInt(parts[2]), Int2R(60))),
                           parseFloat(parts[3]))
                 ELSE IF Len(parts) = 2
                 THEN JAdd(JMul(parseInt(parts[1]), Int2R(60)), parseFloat(parts[2]))
                 ELSE parseFloat(parts[1])
         IN  MathRound(JMul(seconds, Int2R(1000)))

(***************************************************************************)
(* The DOM.  A node is a text node, a CDATA section or an element with a   *)
(* tag, attributes (a function from attribute names to strings) and        *)
(* children.  An element inside a tree is named by its path, the sequence  *)
(* of child indices that leads to it from the root of the tree.            *)
(***************************************************************************)
Txt(data) == [kind |-> "text", data |-> data]

CData(data) == [kind |-> "cdata", data |-> data]

El(tag, attrs, children) ==
    [kind |-> "element", tag |-> tag, attrs |-> attrs, children |-> children]

NoAttrs == << >>

\* element.hasAttribute(name)
hasAttribute(el, name) == name \in DOMAIN el.attrs

\* element.getAttribute(name) || ""
getAttribute(el, name) == IF hasAttribute(el, name) THEN el.attrs[name] ELSE << >>

RECURSIVE NodeAt(_, _)
NodeAt(root, path) ==
    IF path = << >> THEN root ELSE NodeAt(root.children[Head(path)], Tail(path))

\* the element descendants of el in document order, el itself excluded
RECURSIVE ElementPaths(_)
ElementPaths(el) ==
    LET below(i) ==
            LET child == el.children[i]
                sub == ElementPaths(child)
            IN  IF child.kind # "element" THEN << >>
                ELSE <<<<i>>>> \o [j \in 1..Len(sub) |-> <<i>> \o sub[j]]
    IN  Concat([i \in 1..Len(el.children) |-> below(i)])

\* node.textContent: the data of the text nodes and CDATA sections below
\* the node, in document order
RECURSIVE textContent(_)
textContent(node) ==
    IF node.kind # "element" THEN node.data
    ELSE Concat([i \in 1..Len(node.children) |-> textContent(node.children[i])])

\* root.querySelectorAll("span[begin]")
TimedSpans(root) ==
    SelectSeq(ElementPaths(root),
              LAMBDA path : /\ NodeAt(root, path).tag = "span"
                            /\ hasAttribute(NodeAt(root, path), "begin"))

\* doc.querySelectorAll("p")
Paragraphs(doc) ==
    SelectSeq(ElementPaths(doc), LAMBDA path : NodeAt(doc, path).tag = "p")

\* doc.querySelectorAll("transliteration text")
TransliterationTexts(doc) ==
    SelectSeq(ElementPaths(doc),
              LAMBDA path : /\ NodeAt(doc, path).tag = "text"
                            /\ \E k \in 1..(Len(path) - 1) :
                                   NodeAt(doc, SubSeq(path, 1, k)).tag = "transliteration")

\* the value of the background-role marker
XBg == <<"x", "-", "b", "g">>

\* el.getAttribute("ttm:role") === "x-bg"
HasBackgroundRole(el) == hasAttribute(el, "ttm:role") /\ el.attrs["ttm:role"] = XBg

(***************************************************************************)
(* parseTTML                                                               *)
(***************************************************************************)
\* lines 107-111: a word of a transliteration
TransliterationWord(span) ==
    [begin |-> parseTime(getAttribute(span, "begin")),
     end |-> parseTime(getAttribute(span, "end")),
     text |-> textContent(span)]

\* lines 101-118: the entries set in transliterationMap, in the order of
\* the set calls
transliterationMap(doc) ==
    LET texts == SelectSeq(TransliterationTexts(doc),
                           LAMBDA path : getAttribute(NodeAt(doc, path), "for") # << >>)
        entry(path) ==
            LET textEl == NodeAt(doc, path)
                spans == TimedSpans(textEl)
            IN  [key |-> getAttribute(textEl, "for"),
                 value |-> [text |-> textContent(textEl),
                            words |-> [j \in 1..Len(spans) |->
                                          TransliterationWord(NodeAt(textEl, spans[j]))]]]
    IN  [i \in 1..Len(texts) |-> entry(texts[i])]

\* a lookup that returns the value set last, whatever its key
MapGetLast(entries, key) ==
    IF entries = << >> THEN undefined ELSE Some(entries[Len(entries)].value)

\* a lookup in a map whose set keeps the value a key was given first
MapGetFirst(entries, key) ==
    LET hits == {i \in 1..Len(entries) : entries[i].key = key}
    IN  IF hits = {} THEN undefined
        ELSE Some(entries[CHOOSE i \in hits : \A j \in hits : i <= j].value)

\* Map.prototype.get after the set calls of entries: the value set last
MapGet(entries, key) ==
    LET hits == {i \in 1..Len(entries) : entries[i].key = key}
    IN  IF hits = {} THEN undefined
        ELSE Some(entries[CHOOSE i \in hits : \A j \in hits : j <= i].value)

\* lines 129-147: bgText and leadText before they are trimmed
RECURSIVE collectText(_, _)
collectText(element, inBackground) ==
    LET none == [leadText |-> << >>, bgText |-> << >>]
        of(node) ==
            IF node.kind = "text"
            THEN IF inBackground THEN [leadText |-> << >>, bgText |-> node.data]
                 ELSE [leadText |-> node.data, bgText |-> << >>]
            ELSE IF node.kind = "element"
            THEN collectText(node, inBackground \/ HasBackgroundRole(node))
            ELSE none
        parts == [i \in 1..Len(element.children) |-> of(element.children[i])]
    IN  [leadText |-> Concat([i \in 1..Len(parts) |-> parts[i].leadText]),
         bgText |-> Concat([i \in 1..Len(parts) |-> parts[i].bgText])]

\* a test of the parent of the span only, without the loop
ParentIsBackground(p, parent) ==
    parent # << >> /\ HasBackgroundRole(NodeAt(p, parent))

\* lines 152-160: the loop over the ancestors of a span, from parent up to
\* the paragraph p
RECURSIVE AncestorIsBackground(_, _)
AncestorIsBackground(p, parent) ==
    IF parent = << >> THEN FALSE
    ELSE IF HasBackgroundRole(NodeAt(p, parent)) THEN TRUE
    ELSE AncestorIsBackground(p, Front(parent))

\* lines 150-168: the word of the span at path in paragraph p
Word(p, path) ==
    LET span == NodeAt(p, path)
        isBackground == AncestorIsBackground(p, Front(path))
    IN  [begin |-> parseTime(getAttribute(span, "begin")),
         end |-> parseTime(getAttribute(span, "end")),
         text |-> textContent(span),
         isBackground |-> IF isBackground THEN Some(TRUE) ELSE undefined]

\* a line whose words are put in the order of their begin times
ParsedLineSortedWords(p, entries) ==
    LET collected == collectText(p, FALSE)
        spans == TimedSpans(p)
        key == getAttribute(p, "itunes:key")
    IN  [begin |-> parseTime(getAttribute(p, "begin")),
         end |-> parseTime(getAttribute(p, "end")),
         text |-> textContent(p),
         leadText |-> Trim(collected.leadText),
         bgText |-> Trim(collected.bgText),
         words |-> SortSeq([j \in 1..Len(spans) |-> Word(p, spans[j])],
                           LAMBDA a, b : RLt(a.begin, b.begin)),
         agent |-> getAttribute(p, "ttm:agent"),
         key |-> key,
         transliteration |-> IF key # << >> THEN MapGet(entries, key) ELSE undefined]

\* lines 120-184: the line of paragraph p, joined against the entries of
\* the transliteration map
ParsedLine(p, entries) ==
    LET collected == collectText(p, FALSE)
        spans == TimedSpans(p)
        key == getAttribute(p, "itunes:key")
    IN  [begin |-> parseTime(getAttribute(p, "begin")),
         end |-> parseTime(getAttribute(p, "end")),
         text |-> textContent(p),
         leadText |-> Trim(collected.leadText),
         bgText |-> Trim(collected.bgText),
         words |-> [j \in 1..Len(spans) |-> Word(p, spans[j])],
         agent |-> getAttribute(p, "ttm:agent"),
         key |-> key,
         transliteration |-> IF key # << >> THEN MapGet(entries, key) ELSE undefined]

\* a parser that joins each line while it scans the document: a line sees
\* only the transliteration containers that precede it
parseDocumentSinglePass(doc) ==
    LET all == ElementPaths(doc)
        pos(path) == CHOOSE k \in 1..Len(all) : all[k] = path
        ps == Paragraphs(doc)
        texts == SelectSeq(TransliterationTexts(doc),
                           LAMBDA path : getAttribute(NodeAt(doc, path), "for") # << >>)
        entries == transliterationMap(doc)
        before(p) == [i \in 1..Len(entries) |->
                         IF pos(texts[i]) < pos(p) THEN entries[i]
                         ELSE [key |-> << >>, value |-> entries[i].value]]
    IN  [i \in 1..Len(ps) |-> ParsedLine(NodeAt(doc, ps[i]), before(ps[i]))]

\* lines 94-186: the lines of a parsed document
parseDocument(doc) ==
    LET ps == Paragraphs(doc)
        entries == transliterationMap(doc)
    IN  [i \in 1..Len(ps) |-> ParsedLine(NodeAt(doc, ps[i]), entries)]

(***************************************************************************)
(* The markup text and the platform.  A markup text is given by the items  *)
(* under its root element in source order and by the place of its first    *)
(* well-formedness error: error = 0 for a well-formed text, error = k > 0  *)
(* for a text whose first error comes after k - 1 complete items.          *)
(* DOMParser.parseFromString(text, "text/xml") never throws on such an     *)
(* error; what document it returns depends on the browser engine.          *)
(***************************************************************************)
Markup(items, error) == [items |-> items, error |-> error]

\* Gecko returns a document whose only element is parsererror; Blink and
\* WebKit keep what was parsed before the error and add a parsererror
\* element to it; outside a browser there is no DOMParser and line 92 throws
Platforms == {"gecko", "blink", "none"}

ParserError == El("parsererror", NoAttrs, <<Txt(<<"e", "r", "r">>)>>)

\* line 93
parseFromString(markup, platform) ==
    IF markup.error = 0 THEN El("tt", NoAttrs, markup.items)
    ELSE IF platform = "gecko" THEN ParserError
    ELSE El("tt", NoAttrs, <<ParserError>> \o SubSeq(markup.items, 1, markup.error - 1))

\* lines 90-190: the catch clause returns the empty array
parseTTML(markup, platform) ==
    IF platform = "none" THEN << >>
    ELSE parseDocument(parseFromString(markup, platform))

(***************************************************************************)
(* The markup texts parsed in the model                                    *)
(***************************************************************************)
\* children of a paragraph in the texts that vary its content
MaxChildren == 2

\* items under the root in the texts that vary the order of lines and
\* transliteration containers
MaxItems == 3

\* the sequences over S of length at most n
SeqsUpTo(S, n) == UNION {[1..k -> S] : k \in 0..n}

La == <<"l", "a">>

Na == <<" ", "n", "a">>

L1 == <<"L", "1">>

L2 == <<"L", "2">>

\* a time string is written from the digits of its parts: hours, minutes,
\* whole seconds and fraction of a second
DigitChars(ds) == [i \in 1..Len(ds) |-> Digits[ds[i] + 1]]

TimeSpecs ==
    {t \in [parts : 1..3,
            h : {<<0>>, <<1>>, <<1, 0>>},
            m : {<<2>>, <<0, 2>>, <<5, 9>>},
            s : {<<5>>, <<0, 3>>, <<4, 5>>},
            f : {<< >>, <<5>>, <<2, 5>>, <<0, 0, 0, 4>>, <<1, 2, 3, 6>>}] :
        /\ t.parts < 3 => t.h = <<0>>
        /\ t.parts < 2 => t.m = <<2>>}

Render(t) ==
    (IF t.parts = 3 THEN DigitChars(t.h) \o <<":">> ELSE << >>)
        \o (IF t.parts >= 2 THEN DigitChars(t.m) \o <<":">> ELSE << >>)
        \o DigitChars(t.s)
        \o (IF t.f # << >> THEN <<".">> \o DigitChars(t.f) ELSE << >>)

ValidTimeStrs == {Render(t) : t \in TimeSpecs}

\* strings that are not times: non-numeric parts, an empty part, four parts
InvalidTimeStrs ==
    {<<"a", "b">>, <<"1", ":", "a", "b">>, <<"a", "b", ":", "1">>, <<"1", ":">>,
     <<" ">>, <<"1", ":", "2", ":", "3", ":", "4">>}

\* the attribute is not written
Absent == <<"absent">>

TimeAttrs(b, e) ==
    (IF b = Absent THEN NoAttrs ELSE "begin" :> b)
        @@ (IF e = Absent THEN NoAttrs ELSE "end" :> e)

T1 == <<"1">>

T2 == <<"2", ".", "5">>

\* a paragraph with one word, both timed from b to e
TimedParagraph(b, e) ==
    El("p", TimeAttrs(b, e), <<El("span", TimeAttrs(b, e), <<Txt(La)>>)>>)

TimeMarkups ==
    {Markup(<<TimedParagraph(t, t)>>, 0) : t \in ValidTimeStrs \cup InvalidTimeStrs}
        \cup {Markup(<<TimedParagraph(b, e)>>, 0) :
                  b, e \in {T1, T2, <<"1", ":", "0", "0">>, << >>, Absent, <<"a", "b">>}}

\* what a paragraph is built from: text, a CDATA section, a word, a word
\* under a background element, a word under an element under a background
\* element, a word that carries the marker itself, background text, a word
\* that begins later than the others, a span with an end and no begin, and
\* an element with a begin that is not a span
WordSpan(text) == El("span", TimeAttrs(T1, T2), <<Txt(text)>>)

Background(children) == El("span", "ttm:role" :> XBg, children)

ChildPool ==
    {Txt(<<"l", "a", " ">>),
     CData(La),
     WordSpan(La),
     Background(<<WordSpan(Na)>>),
     Background(<<El("span", NoAttrs, <<WordSpan(Na)>>)>>),
     El("span", TimeAttrs(T1, T2) @@ ("ttm:role" :> XBg), <<Txt(Na)>>),
     Background(<<Txt(Na)>>),
     El("span", TimeAttrs(T2, T2), <<Txt(Na)>>),
     El("span", TimeAttrs(Absent, T2), <<Txt(La)>>),
     El("s", TimeAttrs(T1, T2), <<Txt(La)>>)}

ContentMarkups ==
    {Markup(<<El("p", TimeAttrs(T1, T2), children)>>, 0) :
         children \in SeqsUpTo(ChildPool, MaxChildren)}

\* lines with and without a key and transliteration containers for keys
Keyed(key, text) ==
    El("p", TimeAttrs(T1, T2) @@ ("itunes:key" :> key), <<WordSpan(text)>>)

Container(key, text) ==
    El("transliteration", NoAttrs, <<El("text", "for" :> key, <<WordSpan(text)>>)>>)

ItemPool ==
    {Keyed(L1, La),
     El("div", NoAttrs, <<Keyed(L2, La)>>),
     El("p", TimeAttrs(T1, T2), <<Txt(La)>>),
     Container(L1, Na),
     Container(L1, La),
     Container(L2, Na),
     El("transliteration", NoAttrs,
        <<El("text", "for" :> L2,
             <<WordSpan(La), El("span", NoAttrs, <<Txt(Na)>>), WordSpan(Na)>>)>>),
     El("transliteration", NoAttrs, <<El("text", NoAttrs, <<WordSpan(Na)>>)>>),
     El("text", "for" :> L1, <<WordSpan(Na)>>)}

OrderMarkups == {Markup(items, 0) : items \in SeqsUpTo(ItemPool, MaxItems)}

\* texts that are not well-formed
MalformedMarkups ==
    {m \in [items : SeqsUpTo(ItemPool, MaxItems - 1), error : 1..MaxItems] :
         m.error <= Len(m.items) + 1}

Markups == TimeMarkups \cup ContentMarkups \cup OrderMarkups \cup MalformedMarkups

VARIABLES
    ttml,           \* the ttml prop: an index into Docs
    zoom,
    panOffset,
    selectedLine,   \* a line index, or null
    scrubPosition,  \* a time, or NullTime
    isDragging,
    dragStartRef,   \* [x, offset]
    didDragRef,
    rafRef,         \* the offset of the pending animation-frame callback, or NullTime
    timers,         \* number of pending setTimeout callbacks
    clickPending,   \* a mouseup was handled and its click is still to be dispatched
    pointerX,       \* clientX of the pointer
    gestures,       \* number of counted gestures handled so far
    markup,         \* the markup text given to parseTTML
    platform,       \* the platform the parser runs on
    parsed,         \* what parseTTML returned, or undefined before the call
    deps,           \* [totalDuration, zoom, panOffset] of one evaluation of timeMarkers
    markers,        \* what that evaluation returned, or undefined before it
    calls,          \* the calls of parseTTML made so far: [markup, lines]
    locals,         \* lines and transliterationMap as the last call left them
    dragMoved,      \* history: since dragStartRef was last set, a mouse move of
                    \* a drag was more than DragThreshold pixels from it
    clickedInDrag,  \* history: a click on the track was handled in the drag
                    \* that is in progress
    zoomLowered     \* history: since the pending animation-frame callback was
                    \* scheduled, a wheel, zoom-out or reset step lowered the zoom

vars ==
    <<ttml, zoom, panOffset, selectedLine, scrubPosition, isDragging, dragStartRef,
      didDragRef, rafRef, timers, clickPending, pointerX>>

parserVars == <<markup, platform, parsed>>

markerVars == <<deps, markers>>

callVars == <<calls, locals>>

lines == Docs[ttml]

RECURSIVE MaxEnd(_)
MaxEnd(ls) ==
    IF Len(ls) = 0 THEN 0
    ELSE LET m == MaxEnd(Tail(ls))
         IN  IF Head(ls).end > m THEN Head(ls).end ELSE m

\* lines 207-210: totalDuration is memoized per document
Durations == [d \in DocIds |-> MaxEnd(Docs[d])]

totalDuration == Int2R(Durations[ttml])

visibleDuration == RDiv(totalDuration, zoom)

maxPanOffset == RMax(Int2R(0), RSub(totalDuration, visibleDuration))

(***************************************************************************)
(* The computations of the handlers                                        *)
(***************************************************************************)
MinZoom == 1

MaxZoom == 20

DragThreshold == 3

\* x / rect.width
Percentage(x) == Norm(x, TrackWidth)

\* a wheel zoom that is not clamped to the maximum zoom
WheelZoomNoUpperClamp(z, deltaY) ==
    LET zoomDelta == IF deltaY > 0 THEN <<4, 5>> ELSE <<5, 4>>
    IN  RMax(Int2R(MinZoom), RMul(z, zoomDelta))

\* lines 279-280: zoomDelta and newZoom of handleWheel
WheelZoom(z, deltaY) ==
    LET zoomDelta == IF deltaY > 0 THEN <<4, 5>> ELSE <<5, 4>>
    IN  RMax(Int2R(MinZoom), RMin(Int2R(MaxZoom), RMul(z, zoomDelta)))

\* a wheel step that keeps the time at the centre of the window, not the
\* time under the pointer
WheelPanCentered(total, pan, visible, pct, newZoom) ==
    LET centerTime == RAdd(pan, RDiv(visible, Int2R(2)))
        newVisibleDuration == RDiv(total, newZoom)
    IN  RMax(Int2R(0),
             RMin(RSub(total, newVisibleDuration),
                  RSub(centerTime, RDiv(newVisibleDuration, Int2R(2)))))

\* lines 276, 283-290: newPanOffset of handleWheel
WheelPan(total, pan, visible, pct, newZoom) ==
    LET mouseTime == RAdd(pan, RMul(pct, visible))
        newVisibleDuration == RDiv(total, newZoom)
    IN  RMax(Int2R(0),
             RMin(RSub(total, newVisibleDuration),
                  RSub(mouseTime, RMul(pct, newVisibleDuration))))

\* a zoom-in step that is not clamped to MaxZoom
ZoomInZoomUnclamped(z) == RMul(z, <<3, 2>>)

\* line 362
ZoomInZoom(z) == RMin(Int2R(MaxZoom), RMul(z, <<3, 2>>))

\* line 377
ZoomOutZoom(z) == RMax(Int2R(MinZoom), RDiv(z, <<3, 2>>))

\* a button step that keeps the left edge of the window, not its midpoint
ButtonPanLeftEdge(total, pan, visible, newZoom) ==
    LET newVisibleDuration == RDiv(total, newZoom)
    IN  RMax(Int2R(0), RMin(RSub(total, newVisibleDuration), pan))

\* lines 363-371 and 378-386: newPanOffset of handleZoomIn and handleZoomOut
ButtonPan(total, pan, visible, newZoom) ==
    LET newVisibleDuration == RDiv(total, newZoom)
        centerTime == RAdd(pan, RDiv(visible, Int2R(2)))
    IN  RMax(Int2R(0),
             RMin(RSub(total, newVisibleDuration),
                  RSub(centerTime, RDiv(newVisibleDuration, Int2R(2)))))

\* a displacement test that already counts exactly DragThreshold pixels
ExceedsThresholdInclusive(x, startX) == Abs(x - startX) >= DragThreshold

\* lines 314-315: the displacement test of handleMouseMove
ExceedsThreshold(x, startX) == Abs(x - startX) > DragThreshold

\* a drag offset that is not clamped to maxPanOffset
DragOffsetNoUpperClamp(x, start, visible, maxPan) ==
    LET deltaTime == RMul(Norm(x - start.x, TrackWidth), visible)
    IN  RMax(Int2R(0), RSub(start.offset, deltaTime))

\* an incremental drag offset: the current offset moved by the displacement
\* since the previous pointer position
DragOffsetIncremental(x, start, visible, maxPan) ==
    LET deltaTime == RMul(Norm(x - pointerX, TrackWidth), visible)
    IN  RMax(Int2R(0), RMin(maxPan, RSub(panOffset, deltaTime)))

\* lines 325-330: newOffset of handleMouseMove
DragOffset(x, start, visible, maxPan) ==
    LET deltaTime == RMul(Norm(x - start.x, TrackWidth), visible)
    IN  RMax(Int2R(0), RMin(maxPan, RSub(start.offset, deltaTime)))

\* lines 244-248: clampedTime of handleTimelineClick
ClickTime(x, total, pan, visible) ==
    LET time == RAdd(pan, RMul(Percentage(x), visible))
    IN  RMax(Int2R(0), RMin(total, time))

\* a search that returns the last line containing t, not the first
FindIndexLast(ls, t) ==
    LET hits == {i \in 1..Len(ls) : RLe(Int2R(ls[i].begin), t) /\ RLe(t, Int2R(ls[i].end))}
    IN  IF hits = {} THEN -1
        ELSE (CHOOSE i \in hits : \A j \in hits : i >= j) - 1

\* lines 253-255: lines.findIndex; indices are 0-based
FindIndex(ls, t) ==
    LET hits == {i \in 1..Len(ls) : RLe(Int2R(ls[i].begin), t) /\ RLe(t, Int2R(ls[i].end))}
    IN  IF hits = {} THEN -1
        ELSE (CHOOSE i \in hits : \A j \in hits : i <= j) - 1

\* a conversion that ignores the pan offset
timeToPositionNoPan(time) ==
    LET q == RDiv(time, visibleDuration)
    IN  IF IsFinite(q) THEN RMul(q, Int2R(100)) ELSE q

\* lines 397-399
timeToPosition(time) ==
    LET q == RDiv(RSub(time, panOffset), visibleDuration)
    IN  IF IsFinite(q) THEN RMul(q, Int2R(100)) ELSE q

\* Math.floor of a finite number
MathFloor(a) == a[1] \div a[2]

\* an interval that does not look at totalDuration
MarkerIntervalByZoomOnly(z, total) ==
    IF RLe(Int2R(4), z) THEN 10000
    ELSE IF RLe(Int2R(2), z) THEN 30000
    ELSE 60000

\* lines 218-221: interval of timeMarkers, in milliseconds
MarkerInterval(z, total) ==
    IF RLe(Int2R(4), z) THEN 10000
    ELSE IF RLe(Int2R(2), z) THEN 30000
    ELSE IF RLe(total, Int2R(180000)) THEN 30000
    ELSE 60000

\* lines 226-230: the loop of timeMarkers, from i on
RECURSIVE MarkerLoop(_, _, _, _)
MarkerLoop(i, limit, interval, total) ==
    IF ~RLe(Int2R(i), limit) THEN << >>
    ELSE (IF i >= 0 /\ RLe(Int2R(i), total) THEN <<Int2R(i)>> ELSE << >>)
             \o MarkerLoop(i + interval, limit, interval, total)

\* markers that start at the first multiple inside the window
timeMarkersFromCeiling(total, z, pan) ==
    LET interval == MarkerInterval(z, total)
        floor == MathFloor(RDiv(pan, Int2R(interval))) * interval
        startTime == IF Int2R(floor) = pan THEN floor ELSE floor + interval
        endTime == RAdd(pan, RDiv(total, z))
    IN  MarkerLoop(startTime, RAdd(endTime, Int2R(interval)), interval, total)

\* lines 215-232: timeMarkers, a function of totalDuration, zoom and
\* panOffset (visibleDuration is totalDuration / zoom, line 212)
timeMarkers(total, z, pan) ==
    LET interval == MarkerInterval(z, total)
        startTime == MathFloor(RDiv(pan, Int2R(interval))) * interval
        endTime == RAdd(pan, RDiv(total, z))
    IN  MarkerLoop(startTime, RAdd(endTime, Int2R(interval)), interval, total)

(***************************************************************************)
(* The handlers.  A handler that returns early leaves the state as it is.  *)
(***************************************************************************)
\* line 417: without lines the component renders nothing
Rendered == Len(lines) > 0

\* lines 402-405: handleLineClick
handleLineClick(index) ==
    /\ selectedLine' = index
    /\ scrubPosition' = Int2R(lines[index + 1].begin)

\* a click that clears the selection when no line contains its time
handleTimelineClickClearsSelection ==
    IF totalDuration = Int2R(0) \/ isDragging \/ didDragRef
    THEN UNCHANGED <<scrubPosition, selectedLine>>
    ELSE LET clampedTime == ClickTime(pointerX, totalDuration, panOffset, visibleDuration)
             lineIndex == FindIndex(lines, clampedTime)
         IN  /\ scrubPosition' = clampedTime
             /\ selectedLine' = IF lineIndex # -1 THEN lineIndex ELSE null

\* a click that is handled in the middle of a drag
handleTimelineClickWhileDragging ==
    IF totalDuration = Int2R(0) \/ didDragRef
    THEN UNCHANGED <<scrubPosition, selectedLine>>
    ELSE LET clampedTime == ClickTime(pointerX, totalDuration, panOffset, visibleDuration)
             lineIndex == FindIndex(lines, clampedTime)
         IN  /\ scrubPosition' = clampedTime
             /\ selectedLine' = IF lineIndex # -1 THEN lineIndex ELSE selectedLine

\* lines 234-266: handleTimelineClick at the pointer
handleTimelineClick ==
    IF totalDuration = Int2R(0) \/ isDragging \/ didDragRef
    THEN UNCHANGED <<scrubPosition, selectedLine>>
    ELSE LET clampedTime == ClickTime(pointerX, totalDuration, panOffset, visibleDuration)
             lineIndex == FindIndex(lines, clampedTime)
         IN  /\ scrubPosition' = clampedTime
             /\ selectedLine' = IF lineIndex # -1 THEN lineIndex ELSE selectedLine

\* a click on the track outside the bars; the click that follows a handled
\* mouseup belongs to that gesture
TimelineClick ==
    /\ Rendered
    /\ handleTimelineClick
    /\ clickPending' = FALSE
    /\ UNCHANGED <<ttml, zoom, panOffset, isDragging, dragStartRef, didDragRef, rafRef,
                   timers, pointerX>>

\* a bar click that selects its line whatever the did-drag flag says
BarClickUnguarded(index) ==
    /\ Rendered
    /\ index \in 0..(Len(lines) - 1)
    /\ handleLineClick(index)
    /\ clickPending' = FALSE
    /\ UNCHANGED <<ttml, zoom, panOffset, isDragging, dragStartRef, didDragRef, rafRef,
                   timers, pointerX>>

\* lines 522-526: a click on the bar of line index
BarClick(index) ==
    /\ Rendered
    /\ index \in 0..(Len(lines) - 1)
    /\ IF didDragRef THEN UNCHANGED <<selectedLine, scrubPosition>>
       ELSE handleLineClick(index)
    /\ clickPending' = FALSE
    /\ UNCHANGED <<ttml, zoom, panOffset, isDragging, dragStartRef, didDragRef, rafRef,
                   timers, pointerX>>

\* line 562: a click on an item of the line list
LineItemClick(index) ==
    /\ Rendered
    /\ ~clickPending
    /\ index \in 0..(Len(lines) - 1)
    /\ handleLineClick(index)
    /\ UNCHANGED <<ttml, zoom, panOffset, isDragging, dragStartRef, didDragRef, rafRef,
                   timers, clickPending, pointerX>>

\* lines 268-296
handleWheel(deltaY) ==
    /\ Rendered
    /\ ~clickPending
    /\ LET newZoom == WheelZoom(zoom, deltaY)
       IN  /\ zoom' = newZoom
           /\ panOffset' = WheelPan(totalDuration, panOffset, visibleDuration,
                                    Percentage(pointerX), newZoom)
    /\ UNCHANGED <<ttml, selectedLine, scrubPosition, isDragging, dragStartRef,
                   didDragRef, rafRef, timers, clickPending, pointerX>>

\* a mouse-down that starts a drag at any zoom level
handleMouseDownAnyZoom ==
    /\ Rendered
    /\ ~clickPending
    /\ isDragging' = TRUE
    /\ didDragRef' = FALSE
    /\ dragStartRef' = [x |-> pointerX, offset |-> panOffset]
    /\ UNCHANGED <<ttml, zoom, panOffset, selectedLine, scrubPosition, rafRef, timers,
                   clickPending, pointerX>>

\* lines 298-307
handleMouseDown ==
    /\ Rendered
    /\ ~clickPending
    /\ IF RLe(zoom, Int2R(1))
       THEN UNCHANGED <<isDragging, didDragRef, dragStartRef>>
       ELSE /\ isDragging' = TRUE
            /\ didDragRef' = FALSE
            /\ dragStartRef' = [x |-> pointerX, offset |-> panOffset]
    /\ UNCHANGED <<ttml, zoom, panOffset, selectedLine, scrubPosition, rafRef, timers,
                   clickPending, pointerX>>

\* lines 309-338: the pointer moves to x; the pan update is left to an
\* animation-frame callback, which replaces the one still pending
handleMouseMove(x) ==
    /\ Rendered
    /\ ~clickPending
    /\ pointerX' = x
    /\ IF ~isDragging
       THEN UNCHANGED <<didDragRef, rafRef>>
       ELSE /\ didDragRef' = (didDragRef \/ ExceedsThreshold(x, dragStartRef.x))
            /\ rafRef' = DragOffset(x, dragStartRef, visibleDuration, maxPanOffset)
    /\ UNCHANGED <<ttml, zoom, panOffset, selectedLine, scrubPosition, isDragging,
                   dragStartRef, timers, clickPending>>

\* lines 333-335: the animation-frame callback
FrameCallback ==
    /\ rafRef # NullTime
    /\ ~clickPending
    /\ panOffset' = rafRef
    /\ rafRef' = NullTime
    /\ UNCHANGED <<ttml, zoom, selectedLine, scrubPosition, isDragging, dragStartRef,
                   didDragRef, timers, clickPending, pointerX>>

\* a release that resets the did-drag flag itself, before its click runs
handleMouseUpResetsFlag ==
    /\ Rendered
    /\ ~clickPending
    /\ IF ~isDragging
       THEN UNCHANGED <<rafRef, isDragging, timers, clickPending, didDragRef>>
       ELSE /\ rafRef' = NullTime
            /\ isDragging' = FALSE
            /\ timers' = timers
            /\ clickPending' = TRUE
            /\ didDragRef' = FALSE
    /\ UNCHANGED <<ttml, zoom, panOffset, selectedLine, scrubPosition, dragStartRef,
                   pointerX>>

\* lines 340-350: the click of the same gesture is dispatched before any
\* other task runs
handleMouseUp ==
    /\ Rendered
    /\ ~clickPending
    /\ IF ~isDragging
       THEN UNCHANGED <<rafRef, isDragging, timers, clickPending, didDragRef>>
       ELSE /\ rafRef' = NullTime
            /\ isDragging' = FALSE
            /\ timers' = timers + 1
            /\ clickPending' = TRUE
            /\ UNCHANGED didDragRef
    /\ UNCHANGED <<ttml, zoom, panOffset, selectedLine, scrubPosition, dragStartRef,
                   pointerX>>

\* a timer callback that runs and leaves the did-drag flag as it is
TimeoutCallbackKeepsFlag ==
    /\ timers > 0
    /\ ~clickPending
    /\ didDragRef' = didDragRef
    /\ timers' = timers - 1
    /\ UNCHANGED <<ttml, zoom, panOffset, selectedLine, scrubPosition, isDragging,
                   dragStartRef, rafRef, clickPending, pointerX>>

\* lines 347-349: the callback of setTimeout(..., 0)
TimeoutCallback ==
    /\ timers > 0
    /\ ~clickPending
    /\ didDragRef' = FALSE
    /\ timers' = timers - 1
    /\ UNCHANGED <<ttml, zoom, panOffset, selectedLine, scrubPosition, isDragging,
                   dragStartRef, rafRef, clickPending, pointerX>>

\* lines 352-359
handleMouseLeave ==
    /\ Rendered
    /\ ~clickPending
    /\ IF ~isDragging
       THEN UNCHANGED <<rafRef, isDragging, didDragRef>>
       ELSE /\ rafRef' = NullTime
            /\ isDragging' = FALSE
            /\ didDragRef' = FALSE
    /\ UNCHANGED <<ttml, zoom, panOffset, selectedLine, scrubPosition, dragStartRef,
                   timers, clickPending, pointerX>>

\* a zoom-in button that also drops the selection
handleZoomInClearsSelection ==
    /\ Rendered
    /\ ~clickPending
    /\ RLt(zoom, Int2R(MaxZoom))
    /\ LET newZoom == ZoomInZoom(zoom)
       IN  /\ zoom' = newZoom
           /\ panOffset' = ButtonPan(totalDuration, panOffset, visibleDuration, newZoom)
    /\ selectedLine' = null
    /\ UNCHANGED <<ttml, scrubPosition, isDragging, dragStartRef,
                   didDragRef, rafRef, timers, clickPending, pointerX>>

\* lines 361-374; the button is disabled at zoom >= 20 (line 450)
handleZoomIn ==
    /\ Rendered
    /\ ~clickPending
    /\ RLt(zoom, Int2R(MaxZoom))
    /\ LET newZoom == ZoomInZoom(zoom)
       IN  /\ zoom' = newZoom
           /\ panOffset' = ButtonPan(totalDuration, panOffset, visibleDuration, newZoom)
    /\ UNCHANGED <<ttml, selectedLine, scrubPosition, isDragging, dragStartRef,
                   didDragRef, rafRef, timers, clickPending, pointerX>>

\* lines 376-389; the button is disabled at zoom <= 1 (line 434)
handleZoomOut ==
    /\ Rendered
    /\ ~clickPending
    /\ RLt(Int2R(MinZoom), zoom)
    /\ LET newZoom == ZoomOutZoom(zoom)
       IN  /\ zoom' = newZoom
           /\ panOffset' = ButtonPan(totalDuration, panOffset, visibleDuration, newZoom)
    /\ UNCHANGED <<ttml, selectedLine, scrubPosition, isDragging, dragStartRef,
                   didDragRef, rafRef, timers, clickPending, pointerX>>

\* a reset of the zoom that leaves the pan offset where it is
handleResetZoomKeepsPan ==
    /\ Rendered
    /\ ~clickPending
    /\ zoom # Int2R(1)
    /\ zoom' = Int2R(1)
    /\ UNCHANGED <<ttml, panOffset, selectedLine, scrubPosition, isDragging, dragStartRef,
                   didDragRef, rafRef, timers, clickPending, pointerX>>

\* lines 391-394; the button is disabled at zoom = 1 (line 442)
handleResetZoom ==
    /\ Rendered
    /\ ~clickPending
    /\ zoom # Int2R(1)
    /\ zoom' = Int2R(1)
    /\ panOffset' = Int2R(0)
    /\ UNCHANGED <<ttml, selectedLine, scrubPosition, isDragging, dragStartRef,
                   didDragRef, rafRef, timers, clickPending, pointerX>>

\* part_004 lines 113-119, 318-320: a new response replaces the ttml prop of
\* the mounted Timeline; lines 205-210 recompute lines and totalDuration and
\* every useState and useRef value is kept
SetTtml(d) ==
    /\ ~clickPending
    /\ d # ttml
    /\ ttml' = d
    /\ UNCHANGED <<zoom, panOffset, selectedLine, scrubPosition, isDragging,
                   dragStartRef, didDragRef, rafRef, timers, clickPending, pointerX>>

\* lines 192-203: the state of a freshly mounted Timeline
Init ==
    /\ ttml \in DocIds
    /\ zoom = Int2R(1)
    /\ panOffset = Int2R(0)
    /\ selectedLine = null
    /\ scrubPosition = NullTime
    /\ isDragging = FALSE
    /\ dragStartRef = [x |-> 0, offset |-> Int2R(0)]
    /\ didDragRef = FALSE
    /\ rafRef = NullTime
    /\ timers = 0
    /\ clickPending = FALSE
    /\ pointerX = 0
    /\ gestures = 0
    /\ dragMoved = FALSE
    /\ clickedInDrag = FALSE
    /\ zoomLowered = FALSE
    /\ markup = Markup(<< >>, 0)
    /\ platform = "gecko"
    /\ parsed = undefined
    /\ deps = [totalDuration |-> Int2R(0), zoom |-> Int2R(1), panOffset |-> Int2R(0)]
    /\ markers = undefined
    /\ calls = << >>
    /\ locals = [lines |-> << >>, transliterationMap |-> << >>]

(***************************************************************************)
(* The gesture budget                                                      *)
(***************************************************************************)
Counted(A, budget) ==
    /\ gestures < budget
    /\ A
    /\ gestures' = gestures + 1
    /\ UNCHANGED <<parserVars, markerVars, callVars>>

Free(A) ==
    /\ A
    /\ UNCHANGED <<gestures, parserVars, markerVars, callVars>>

\* the click that follows a handled mouseup belongs to that gesture
Click(A, budget) ==
    /\ clickPending \/ gestures < budget
    /\ A
    /\ gestures' = IF clickPending THEN gestures ELSE gestures + 1
    /\ UNCHANGED <<parserVars, markerVars, callVars>>

(***************************************************************************)
(* The operations of the engine: the events bound to the handlers at       *)
(* lines 433-478, 522-526 and 562, and the deferred callbacks              *)
(***************************************************************************)
click(budget) ==
    /\ Click(TimelineClick, budget)
    /\ clickedInDrag' = (clickedInDrag \/ isDragging)
    /\ UNCHANGED <<dragMoved, zoomLowered>>

barClick(budget) ==
    /\ \E i \in 0..(Len(lines) - 1) : Click(BarClick(i), budget)
    /\ UNCHANGED <<dragMoved, clickedInDrag, zoomLowered>>

selectLine(budget) ==
    /\ \E i \in 0..(Len(lines) - 1) : Counted(LineItemClick(i), budget)
    /\ UNCHANGED <<dragMoved, clickedInDrag, zoomLowered>>

wheel(budget) ==
    /\ \E deltaY \in {-1, 1} : Counted(handleWheel(deltaY), budget)
    /\ zoomLowered' = (zoomLowered \/ (rafRef # NullTime /\ RLt(zoom', zoom)))
    /\ UNCHANGED <<dragMoved, clickedInDrag>>

dragStart(budget) ==
    /\ Counted(handleMouseDown, budget)
    /\ dragMoved' = (dragMoved /\ RLe(zoom, Int2R(1)))
    /\ clickedInDrag' = (clickedInDrag /\ RLe(zoom, Int2R(1)))
    /\ UNCHANGED zoomLowered

dragMove ==
    \E x \in PointerXs :
        /\ Free(handleMouseMove(x))
        /\ dragMoved' = (dragMoved \/ (isDragging /\ Abs(x - dragStartRef.x) > DragThreshold))
        /\ zoomLowered' = (zoomLowered /\ ~isDragging)
        /\ UNCHANGED clickedInDrag

frame ==
    /\ Free(FrameCallback)
    /\ zoomLowered' = FALSE
    /\ UNCHANGED <<dragMoved, clickedInDrag>>

dragEnd ==
    /\ Free(handleMouseUp)
    /\ clickedInDrag' = FALSE
    /\ zoomLowered' = FALSE
    /\ UNCHANGED dragMoved

timeout ==
    /\ Free(TimeoutCallback)
    /\ UNCHANGED <<dragMoved, clickedInDrag, zoomLowered>>

pointerLeave ==
    /\ Free(handleMouseLeave)
    /\ clickedInDrag' = FALSE
    /\ zoomLowered' = FALSE
    /\ UNCHANGED dragMoved

zoomIn(budget, freeZoomIn) ==
    /\ IF freeZoomIn /\ gestures = 0 THEN Free(handleZoomIn)
       ELSE Counted(handleZoomIn, budget)
    /\ UNCHANGED <<dragMoved, clickedInDrag, zoomLowered>>

zoomOut(budget) ==
    /\ Counted(handleZoomOut, budget)
    /\ zoomLowered' = (zoomLowered \/ (rafRef # NullTime /\ RLt(zoom', zoom)))
    /\ UNCHANGED <<dragMoved, clickedInDrag>>

resetZoom(budget) ==
    /\ Counted(handleResetZoom, budget)
    /\ zoomLowered' = (zoomLowered \/ (rafRef # NullTime /\ RLt(zoom', zoom)))
    /\ UNCHANGED <<dragMoved, clickedInDrag>>

replaceDocument(budget) ==
    /\ \E d \in DocIds : Counted(SetTtml(d), budget)
    /\ UNCHANGED <<dragMoved, clickedInDrag, zoomLowered>>

\* the handlers and callbacks of one mounted Timeline
Engine(budget, freeZoomIn) ==
    \/ click(budget)
    \/ barClick(budget)
    \/ selectLine(budget)
    \/ wheel(budget)
    \/ dragStart(budget)
    \/ dragMove
    \/ frame
    \/ dragEnd
    \/ timeout
    \/ pointerLeave
    \/ zoomIn(budget, freeZoomIn)
    \/ zoomOut(budget)
    \/ resetZoom(budget)

Next ==
    \/ Engine(MaxGestures, FALSE)
    \/ replaceDocument(MaxGestures)

Spec == Init /\ [][Next]_vars

\* every pan update of a mouse move is applied before anything else happens
NextImmediate ==
    IF rafRef # NullTime THEN frame ELSE Engine(MaxGestures, FALSE)

SpecImmediate == Init /\ [][NextImmediate]_vars

\* the zoom-in button is pressed any number of times before other gestures
NextDeep == Engine(MaxDeepGestures, TRUE)

SpecDeep == Init /\ [][NextDeep]_vars

\* The drag and click protocol under the scheduling guarantees of the event
\* loop: a timer set with delay 0 (line 347) is eventually run, and the click
\* the browser dispatches for a release is delivered.  Nothing obliges the
\* user to make a gesture.
MaxFairGestures == 3

NextFair ==
    \/ zoomIn(MaxFairGestures, FALSE)
    \/ dragStart(MaxFairGestures)
    \/ dragMove
    \/ frame
    \/ dragEnd
    \/ timeout
    \/ pointerLeave
    \/ click(MaxFairGestures)

\* the step that delivers the click of a release to the track; whether the
\* handler ignores the click or not, the click is no longer pending
PendingClick ==
    /\ clickPending
    /\ clickPending' = FALSE
    /\ UNCHANGED <<scrubPosition, selectedLine>> \/ handleTimelineClick
    /\ UNCHANGED <<ttml, zoom, panOffset, isDragging, dragStartRef, didDragRef, rafRef,
                   timers, pointerX>>

SpecFair ==
    /\ Init
    /\ [][NextFair]_vars
    /\ WF_vars(timeout)
    /\ WF_vars(PendingClick)

(***************************************************************************)
(* The parser: one call of parseTTML on a markup text, on some platform;   *)
(* no Timeline is involved                                                 *)
(***************************************************************************)
InitParser ==
    /\ markup \in Markups
    /\ platform \in Platforms
    /\ parsed = undefined
    /\ deps = [totalDuration |-> Int2R(0), zoom |-> Int2R(1), panOffset |-> Int2R(0)]
    /\ markers = undefined
    /\ calls = << >>
    /\ locals = [lines |-> << >>, transliterationMap |-> << >>]
    /\ ttml = Len(Docs)
    /\ zoom = Int2R(1)
    /\ panOffset = Int2R(0)
    /\ selectedLine = null
    /\ scrubPosition = NullTime
    /\ isDragging = FALSE
    /\ dragStartRef = [x |-> 0, offset |-> Int2R(0)]
    /\ didDragRef = FALSE
    /\ rafRef = NullTime
    /\ timers = 0
    /\ clickPending = FALSE
    /\ pointerX = 0
    /\ gestures = 0
    /\ dragMoved = FALSE
    /\ clickedInDrag = FALSE
    /\ zoomLowered = FALSE

\* line 205: parseTTML(ttml)
Parse ==
    /\ parsed = undefined
    /\ parsed' = Some(parseTTML(markup, platform))
    /\ UNCHANGED <<markup, platform, vars, gestures, dragMoved, clickedInDrag, zoomLowered,
                   markerVars,
                   callVars>>

NextParser == Parse

SpecParser == InitParser /\ [][NextParser]_parserVars

(***************************************************************************)
(* The gridline markers: one evaluation of timeMarkers on the values a     *)
(* Timeline can hold.  Zoom levels are products of the button and wheel    *)
(* factors; the pan offset lies in [0, maxPanOffset] or, after a pan       *)
(* update that was computed for a higher zoom, above it.                   *)
(***************************************************************************)
MarkerTotals == {0, 5000, 180000, 181000, 250000}

MarkerZooms == {Int2R(1), <<3, 2>>, <<125, 64>>, <<9, 4>>, <<27, 8>>, <<81, 16>>, Int2R(20)}

MarkerPans(total, z) ==
    LET maxPan == RSub(Int2R(total), RDiv(Int2R(total), z))
    IN  {Int2R(0), RMul(maxPan, <<1, 3>>), maxPan, RAdd(maxPan, Int2R(total \div 5))}
            \cup {Int2R(k * MarkerInterval(z, Int2R(total))) : k \in {k \in 1..2 :
                      RLe(Int2R(k * MarkerInterval(z, Int2R(total))), maxPan)}}

MarkerDeps ==
    UNION {{[totalDuration |-> Int2R(total), zoom |-> z, panOffset |-> pan] :
               pan \in MarkerPans(total, z)} : <<total, z>> \in MarkerTotals \X MarkerZooms}

InitMarkers ==
    /\ deps \in MarkerDeps
    /\ markers = undefined
    /\ calls = << >>
    /\ locals = [lines |-> << >>, transliterationMap |-> << >>]
    /\ markup = Markup(<< >>, 0)
    /\ platform = "gecko"
    /\ parsed = undefined
    /\ ttml = Len(Docs)
    /\ zoom = Int2R(1)
    /\ panOffset = Int2R(0)
    /\ selectedLine = null
    /\ scrubPosition = NullTime
    /\ isDragging = FALSE
    /\ dragStartRef = [x |-> 0, offset |-> Int2R(0)]
    /\ didDragRef = FALSE
    /\ rafRef = NullTime
    /\ timers = 0
    /\ clickPending = FALSE
    /\ pointerX = 0
    /\ gestures = 0
    /\ dragMoved = FALSE
    /\ clickedInDrag = FALSE
    /\ zoomLowered = FALSE

\* lines 215-232: the memoized value is computed
ComputeMarkers ==
    /\ markers = undefined
    /\ markers' = Some(timeMarkers(deps.totalDuration, deps.zoom, deps.panOffset))
    /\ UNCHANGED <<deps, parserVars, vars, gestures, dragMoved, clickedInDrag,
                   zoomLowered, callVars>>

NextMarkers == ComputeMarkers

SpecMarkers == InitMarkers /\ [][NextMarkers]_markerVars

(***************************************************************************)
(* Successive calls of parseTTML on one platform, as the Timeline makes    *)
(* them when its ttml prop changes (line 205).  The array lines and the    *)
(* Map transliterationMap are created by each call.                        *)
(***************************************************************************)
MaxCalls == 3

CallMarkups ==
    {Markup(<<Keyed(L1, La)>>, 0),
     Markup(<<Keyed(L1, La), Container(L1, Na)>>, 0),
     Markup(<<Container(L1, La)>>, 0),
     Markup(<<El("p", TimeAttrs(T1, T2), <<Txt(La)>>)>>, 0),
     Markup(<<Keyed(L1, La)>>, 2)}

\* a call that goes on with the array and the Map of the call before it
KeepLocals(previous) == previous

\* lines 94 and 97-100: [] and new Map()
NewLocals(previous) == [lines |-> << >>, transliterationMap |-> << >>]

\* lines 90-190: lines and transliterationMap at the end of a call on text;
\* without a DOMParser line 92 throws before either is created
CallLocals(text, pf, previous) ==
    IF pf = "none" THEN previous
    ELSE LET doc == parseFromString(text, pf)
             new == NewLocals(previous)
             map == new.transliterationMap \o transliterationMap(doc)
             ps == Paragraphs(doc)
         IN  [lines |-> new.lines \o [i \in 1..Len(ps) |->
                                         ParsedLine(NodeAt(doc, ps[i]), map)],
              transliterationMap |-> map]

InitCalls ==
    /\ calls = << >>
    /\ locals = [lines |-> << >>, transliterationMap |-> << >>]
    /\ platform \in Platforms
    /\ markup = Markup(<< >>, 0)
    /\ parsed = undefined
    /\ deps = [totalDuration |-> Int2R(0), zoom |-> Int2R(1), panOffset |-> Int2R(0)]
    /\ markers = undefined
    /\ ttml = Len(Docs)
    /\ zoom = Int2R(1)
    /\ panOffset = Int2R(0)
    /\ selectedLine = null
    /\ scrubPosition = NullTime
    /\ isDragging = FALSE
    /\ dragStartRef = [x |-> 0, offset |-> Int2R(0)]
    /\ didDragRef = FALSE
    /\ rafRef = NullTime
    /\ timers = 0
    /\ clickPending = FALSE
    /\ pointerX = 0
    /\ gestures = 0
    /\ dragMoved = FALSE
    /\ clickedInDrag = FALSE
    /\ zoomLowered = FALSE

\* line 205: parseTTML(ttml) for a new value of the ttml prop
ParseCall(text) ==
    /\ Len(calls) < MaxCalls
    /\ locals' = CallLocals(text, platform, locals)
    /\ calls' = Append(calls, [markup |-> text,
                               lines |-> IF platform = "none" THEN << >>
                                         ELSE locals'.lines])
    /\ UNCHANGED <<parserVars, markerVars, vars, gestures, dragMoved, clickedInDrag,
                   zoomLowered>>

NextCalls == \E text \in CallMarkups : ParseCall(text)

SpecCalls == InitCalls /\ [][NextCalls]_callVars

(***************************************************************************)
(* The claims                                                              *)
(***************************************************************************)
ZoomInRange == RLe(Int2R(1), zoom) /\ RLe(zoom, Int2R(20))

PanInRange ==
    /\ RLe(Int2R(0), panOffset)
    /\ RLe(panOffset, RSub(totalDuration, visibleDuration))

\* C1: in every state reached from the mounted state by the operations of
\* the engine, 1 <= zoom <= 20.
C1_ZoomInRange == ZoomInRange

\* zoom-in was pressed at 1.5^7 and the result was clamped to 20, and a
\* further gesture has been handled at that level
C1_Witness == zoom = Int2R(20) /\ gestures = 1

\* C2: when every pan update of a mouse move is applied at once, in every
\* reachable state 0 <= panOffset <= totalDuration - visibleDuration.
C2_PanInRange == PanInRange

\* a drag to the left has been clamped at the right end of the document
C2_Witness ==
    /\ isDragging
    /\ rafRef = NullTime
    /\ RLt(Int2R(0), panOffset)
    /\ RLt(dragStartRef.offset, panOffset)
    /\ panOffset = RSub(totalDuration, visibleDuration)
    /\ pointerX < dragStartRef.x

\* the time under the pointer, clamped to the document
PointerTime ==
    LET t == RAdd(panOffset, RMul(Norm(pointerX, TrackWidth), visibleDuration))
    IN  IF RLt(t, Int2R(0)) THEN Int2R(0)
        ELSE IF RLt(totalDuration, t) THEN totalDuration ELSE t

\* line index (0-based) contains time t
Contains(index, t) ==
    /\ RLe(Int2R(lines[index + 1].begin), t)
    /\ RLe(t, Int2R(lines[index + 1].end))

LineIndices == 0..(Len(lines) - 1)

\* the step is the click that follows a handled release
PairedClick == clickPending /\ TimelineClick

\* the step sets scrubPosition to the time under the pointer and, if some
\* line contains that time, selects such a line
TreatedAsClick ==
    /\ scrubPosition' = PointerTime
    /\ (\E i \in LineIndices : Contains(i, PointerTime))
           => selectedLine' \in {i \in LineIndices : Contains(i, PointerTime)}

\* C3 as claimed: after a drag in which a mouse move was more than 3 pixels
\* from the drag start, the click that follows the release changes neither
\* selectedLine nor scrubPosition.
C3_ClickSuppressed ==
    [][(PairedClick /\ dragMoved) => UNCHANGED <<selectedLine, scrubPosition>>]_vars

\* C4 as claimed, for totalDuration > 0: when the pointer is released less
\* than the threshold away from the drag start, the click that follows is
\* treated as a click.
C4_NetDisplacement ==
    [][(PairedClick /\ totalDuration # Int2R(0)
            /\ Abs(pointerX - dragStartRef.x) < DragThreshold) => TreatedAsClick]_vars

\* C4 as amended: when totalDuration > 0 and no mouse move of the drag was
\* more than 3 pixels from the drag start, the click that follows the
\* release sets scrubPosition to the time under the pointer and, if some
\* line contains that time, selects such a line.
C4_NoMoveBeyondThreshold ==
    [][(PairedClick /\ totalDuration # Int2R(0) /\ ~dragMoved) => TreatedAsClick]_vars

\* after zoom-in, a drag from x = 0 to the middle of the track (3 pixels at
\* the base width) and its release, the paired click has set the scrubber
C4_Witness ==
    /\ ttml = 1
    /\ zoom = <<3, 2>>
    /\ gestures = 2
    /\ timers > 0
    /\ ~clickPending
    /\ ~isDragging
    /\ ~dragMoved
    /\ dragStartRef.x = 0
    /\ pointerX = TrackWidth \div 2
    /\ scrubPosition = Int2R(2500)
    /\ selectedLine = 1

C6_WheelAnchored ==
    [][(gestures' # gestures /\ \E deltaY \in {-1, 1} : handleWheel(deltaY)) =>
        LET f == Norm(pointerX, TrackWidth)
            newVisible == RDiv(totalDuration, zoom')
            before == RAdd(panOffset, RMul(f, visibleDuration))
            anchored == RSub(before, RMul(f, newVisible))
        IN  (RLe(Int2R(0), anchored) /\ RLe(anchored, RSub(totalDuration, newVisible)))
                => RAdd(panOffset', RMul(f, newVisible)) = before]_vars

\* one wheel step in at the middle of the first document: the window
\* [0, 5000] became [500, 4500], with 2500 still under the pointer
C6_Witness ==
    /\ ttml = 1
    /\ gestures = 1
    /\ zoom = <<5, 4>>
    /\ pointerX * 2 = TrackWidth
    /\ panOffset = Int2R(500)

\* C7: a click that is not ignored sets scrubPosition to the time under the
\* pointer clamped to [0, totalDuration] and selects the first line in
\* document order that contains that time; in the two-line document at zoom 1
\* a click at 50% gives scrubPosition = 2500 and selectedLine = 1.
C7_Click ==
    [][(~isDragging /\ ~didDragRef /\ totalDuration # Int2R(0) /\ TimelineClick) =>
        /\ scrubPosition' = PointerTime
        /\ \A i \in LineIndices :
               (Contains(i, PointerTime) /\ \A j \in 0..(i - 1) : ~Contains(j, PointerTime))
                   => selectedLine' = i
        /\ (ttml = 1 /\ zoom = Int2R(1) /\ panOffset = Int2R(0)
                /\ pointerX * 2 = TrackWidth)
               => (scrubPosition' = Int2R(2500) /\ selectedLine' = 1)]_vars

\* the click of the example has been handled
C7_Witness ==
    /\ ttml = 1
    /\ zoom = Int2R(1)
    /\ gestures = 1
    /\ pointerX * 2 = TrackWidth
    /\ scrubPosition = Int2R(2500)
    /\ selectedLine = 1

\* C8 as claimed: when totalDuration is 0, click, wheel, zoomIn, zoomOut,
\* dragStart and dragMove leave zoom, panOffset, selectedLine, scrubPosition
\* and isDragging unchanged.
C8_DegenerateNoOps ==
    [][(/\ totalDuration = Int2R(0)
        /\ \/ TimelineClick
           \/ \E deltaY \in {-1, 1} : handleWheel(deltaY)
           \/ handleZoomIn
           \/ handleZoomOut
           \/ handleMouseDown
           \/ \E x \in PointerXs : handleMouseMove(x))
        => UNCHANGED <<zoom, panOffset, selectedLine, scrubPosition, isDragging>>]_vars

\* C9 as claimed: a step that replaces the document leaves the view state
\* reset.
C9_ResetOnReplace ==
    [][ttml' # ttml =>
        /\ zoom' = Int2R(1)
        /\ panOffset' = Int2R(0)
        /\ selectedLine' = null
        /\ scrubPosition' = NullTime
        /\ isDragging' = FALSE]_vars

\* the times at which monotonicity is sampled: the edges of the window, the
\* begin of every line and the end of the document
SampleTimes ==
    {panOffset, RAdd(panOffset, visibleDuration), totalDuration}
        \cup {Int2R(lines[i].begin) : i \in 1..Len(lines)}

WindowMapsToPercent ==
    LET position == [t \in SampleTimes |-> timeToPosition(t)]
    IN  /\ position[panOffset] = Int2R(0)
        /\ position[RAdd(panOffset, visibleDuration)] = Int2R(100)
        /\ \A t \in SampleTimes : IsFinite(position[t])
        /\ \A t1, t2 \in SampleTimes : RLt(t1, t2) => RLt(position[t1], position[t2])

\* C10 as claimed: in every state with a rendered timeline, zoom in [1, 20]
\* and panOffset in [0, totalDuration - visibleDuration], the left edge of
\* the window maps to 0, the right edge to 100, and timeToPosition is
\* strictly increasing.
C10_AnyDuration == (Rendered /\ ZoomInRange /\ PanInRange) => WindowMapsToPercent

\* C10 as amended: the same, in every such state with totalDuration > 0.
C10_PositiveDuration ==
    (Rendered /\ totalDuration # Int2R(0) /\ ZoomInRange /\ PanInRange)
        => WindowMapsToPercent

\* a zoomed and panned window over the first document
C10_Witness ==
    /\ ttml = 1
    /\ RLt(Int2R(1), zoom)
    /\ RLt(Int2R(0), panOffset)
    /\ PanInRange
    /\ timeToPosition(Int2R(2000)) # Int2R(40)

\* the root element the markup text is written with
SourceRoot == El("tt", NoAttrs, markup.items)

WellFormed == markup.error = 0

\* C11 as claimed: a call of the parser returns a value, and that value is
\* the empty sequence when the markup text is not well-formed and when it
\* has no paragraph element.
C11_MalformedOrNoParagraphEmpty ==
    (parsed # undefined /\ (~WellFormed \/ Paragraphs(SourceRoot) = << >>))
        => parsed = Some(<< >>)

IsContainer(item) == item.tag = "transliteration"

\* the same items with the transliteration containers moved in front of,
\* or behind, all other items
ContainersFirst(items) ==
    SelectSeq(items, IsContainer) \o SelectSeq(items, LAMBDA item : ~IsContainer(item))

ContainersLast(items) ==
    SelectSeq(items, LAMBDA item : ~IsContainer(item)) \o SelectSeq(items, IsContainer)

\* C12: for a well-formed text, the result of the parser is the result for
\* the text with every transliteration container before the lines and the
\* result for the text with every container after the lines, and a line
\* whose key some container is for has a transliteration.
C12_JoinOrderIndependent ==
    (parsed # undefined /\ WellFormed) =>
        /\ parsed[1] = parseTTML(Markup(ContainersFirst(markup.items), 0), platform)
        /\ parsed[1] = parseTTML(Markup(ContainersLast(markup.items), 0), platform)
        /\ platform # "none" =>
               \A i \in 1..Len(parsed[1]) :
                   (\E path \in {TransliterationTexts(SourceRoot)[k] :
                                   k \in 1..Len(TransliterationTexts(SourceRoot))} :
                        /\ parsed[1][i].key # << >>
                        /\ getAttribute(NodeAt(SourceRoot, path), "for") = parsed[1][i].key)
                       => parsed[1][i].transliteration # undefined

\* a line was parsed whose container comes after it in the text, and the
\* transliteration of that container is attached to it
C12_Witness ==
    /\ markup = Markup(<<Keyed(L1, La), Container(L1, Na)>>, 0)
    /\ parsed # undefined
    /\ Len(parsed[1]) = 1
    /\ parsed[1][1].transliteration # undefined
    /\ parsed[1][1].transliteration[1].text = Na

\* the text is one paragraph, written well-formed
OneParagraph ==
    /\ WellFormed
    /\ Len(markup.items) = 1
    /\ markup.items[1].tag = "p"

\* some element strictly between the paragraph p and its descendant at
\* path carries the background-role marker
MarkedBetween(p, path) ==
    \E k \in 1..(Len(path) - 1) : HasBackgroundRole(NodeAt(p, SubSeq(path, 1, k)))

RECURSIVE TextRuns(_, _)
TextRuns(p, path) ==
    LET node == NodeAt(p, path)
    IN  IF node.kind = "element"
        THEN Concat([i \in 1..Len(node.children) |-> TextRuns(p, path \o <<i>>)])
        ELSE <<[data |-> node.data,
                background |-> \E k \in 1..(Len(path) - 1) :
                                   HasBackgroundRole(NodeAt(p, SubSeq(path, 1, k)))]>>

RunsText(runs, background) ==
    Concat([i \in 1..Len(runs) |->
               IF runs[i].background = background THEN runs[i].data ELSE << >>])

\* number of occurrences of character c in string s
Count(c, s) == Cardinality({i \in 1..Len(s) : s[i] = c})

\* s and t have the same characters, white space apart, in any order
SameCharacters(s, t) ==
    \A c \in {s[i] : i \in 1..Len(s)} \cup {t[i] : i \in 1..Len(t)} :
        c \notin WhiteSpace => Count(c, s) = Count(c, t)

\* C14 as claimed: leadText is the trimmed concatenation of the text runs
\* of the paragraph that are not background, bgText that of the background
\* runs, and leadText followed by bgText has the characters of text, white
\* space apart.
C14_TextPartition ==
    (parsed # undefined /\ platform # "none" /\ OneParagraph) =>
        LET runs == TextRuns(markup.items[1], << >>)
            line == parsed[1][1]
        IN  /\ line.text = Concat([i \in 1..Len(runs) |-> runs[i].data])
            /\ line.leadText = Trim(RunsText(runs, FALSE))
            /\ line.bgText = Trim(RunsText(runs, TRUE))
            /\ SameCharacters(line.leadText \o line.bgText, line.text)

\* the integer nearest to n / d (d > 0; no written time is a tie)
Nearest(n, d) ==
    CHOOSE k \in (n \div d - 1)..(n \div d + 1) : 2 * Abs(n - k * d) < d

\* the number the digits ds denote
RECURSIVE Denoted(_)
Denoted(ds) ==
    IF ds = << >> THEN 0 ELSE 10 * Denoted(SubSeq(ds, 1, Len(ds) - 1)) + ds[Len(ds)]

\* the milliseconds of a written time: (h*3600 + m*60 + s) * 1000, rounded
Milliseconds(t) ==
    LET whole == (IF t.parts = 3 THEN Denoted(t.h) * 3600 ELSE 0)
                     + (IF t.parts >= 2 THEN Denoted(t.m) * 60 ELSE 0)
                     + Denoted(t.s)
        scale == Pow10(Len(t.f))
    IN  whole * 1000 + Nearest(Denoted(t.f) * 1000, scale)

\* the begin and end attributes of p are both the string str
TimedWith(p, str) ==
    /\ hasAttribute(p, "begin") /\ p.attrs["begin"] = str
    /\ hasAttribute(p, "end") /\ p.attrs["end"] = str

\* both times of the parsed line, and of its word, are ms milliseconds
AllTimes(line, ms) ==
    /\ line.begin = Int2R(ms)
    /\ line.end = Int2R(ms)
    /\ \A j \in 1..Len(line.words) :
           line.words[j].begin = Int2R(ms) /\ line.words[j].end = Int2R(ms)

\* C15: a time written h:m:s, m:s or s parses to (h*3600 + m*60 + s)*1000,
\* (m*60 + s)*1000 or s*1000 rounded to the nearest integer, and the empty
\* string to 0; "1:02:03.5" gives 3723500, "2:03.25" gives 123250 and "5.5"
\* gives 5500.
C15_ParseTime ==
    (parsed # undefined /\ platform # "none" /\ OneParagraph) =>
        LET p == markup.items[1]
            line == parsed[1][1]
        IN  /\ \A t \in TimeSpecs :
                   TimedWith(p, Render(t)) => AllTimes(line, Milliseconds(t))
            /\ TimedWith(p, <<"1", ":", "0", "2", ":", "0", "3", ".", "5">>)
                   => AllTimes(line, 3723500)
            /\ TimedWith(p, <<"2", ":", "0", "3", ".", "2", "5">>)
                   => AllTimes(line, 123250)
            /\ TimedWith(p, <<"5", ".", "5">>) => AllTimes(line, 5500)
            /\ TimedWith(p, << >>) => AllTimes(line, 0)

\* the paragraph timed "1:02:03.5" was parsed with its word
C15_Witness ==
    /\ parsed # undefined
    /\ OneParagraph
    /\ TimedWith(markup.items[1], <<"1", ":", "0", "2", ":", "0", "3", ".", "5">>)
    /\ Len(parsed[1]) = 1
    /\ Len(parsed[1][1].words) = 1
    /\ parsed[1][1].begin = Int2R(3723500)
    /\ parsed[1][1].words[1].end = Int2R(3723500)

\* the attribute name of element el is missing or is not a time string
NotATime(el, name) ==
    ~hasAttribute(el, name) \/ el.attrs[name] \in InvalidTimeStrs

\* C16 as claimed: a begin or end attribute that is missing or is not a
\* valid time string gives time 0 for that line or word.
C16_InvalidTimeIsZero ==
    (parsed # undefined /\ platform # "none" /\ OneParagraph) =>
        LET p == markup.items[1]
            line == parsed[1][1]
            spans == TimedSpans(p)
        IN  /\ NotATime(p, "begin") => line.begin = Int2R(0)
            /\ NotATime(p, "end") => line.end = Int2R(0)
            /\ \A j \in 1..Len(spans) :
                   /\ NotATime(NodeAt(p, spans[j]), "begin")
                          => line.words[j].begin = Int2R(0)
                   /\ NotATime(NodeAt(p, spans[j]), "end")
                          => line.words[j].end = Int2R(0)

\* a <= b in JavaScript: false when either is NaN
NumLe(a, b) == IsFinite(a) /\ IsFinite(b) /\ RLe(a, b)

\* C17 as claimed: every line, word and transliteration word parsed from a
\* well-formed text has begin <= end.
C17_BeginBeforeEnd ==
    (parsed # undefined /\ WellFormed) =>
        \A i \in 1..Len(parsed[1]) :
            LET line == parsed[1][i]
            IN  /\ NumLe(line.begin, line.end)
                /\ \A j \in 1..Len(line.words) :
                       NumLe(line.words[j].begin, line.words[j].end)
                /\ line.transliteration # undefined =>
                       \A j \in 1..Len(line.transliteration[1].words) :
                           NumLe(line.transliteration[1].words[j].begin,
                                 line.transliteration[1].words[j].end)

\* the step keeps the midpoint of the visible window, whenever the pan
\* offset that does so lies in [0, totalDuration - newVisibleDuration]
MidpointKept ==
    LET newVisible == RDiv(totalDuration, zoom')
        midpoint == RAdd(panOffset, RDiv(visibleDuration, Int2R(2)))
        centered == RSub(midpoint, RDiv(newVisible, Int2R(2)))
    IN  (RLe(Int2R(0), centered) /\ RLe(centered, RSub(totalDuration, newVisible)))
            => RAdd(panOffset', RDiv(newVisible, Int2R(2))) = midpoint

Selects(index) ==
    /\ selectedLine' = index
    /\ scrubPosition' = Int2R(lines[index + 1].begin)

\* C19 as stated: a selection, from a timeline bar or from the line list,
\* sets selectedLine = index and scrubPosition = begin of that line in every
\* state, whatever isDragging and the did-drag flag are.
C19_SelectsInEveryState ==
    [][\A index \in 0..(Len(lines) - 1) :
           (LineItemClick(index) \/ BarClick(index)) => Selects(index)]_vars

\* C19: a selection from the line list sets selectedLine = index and
\* scrubPosition = begin of that line in every state; a selection from a
\* timeline bar does so, whatever isDragging is, when the did-drag flag is
\* clear, and changes neither when the flag is set.
C19_SelectsUnlessBarAfterDrag ==
    [][\A index \in 0..(Len(lines) - 1) :
           /\ LineItemClick(index) => Selects(index)
           /\ BarClick(index) =>
                  IF didDragRef THEN UNCHANGED <<selectedLine, scrubPosition>>
                  ELSE Selects(index)]_vars

\* a line is selected, with the scrub position at its begin, in the middle
\* of a drag that has moved beyond the threshold
C19_Witness ==
    /\ isDragging
    /\ didDragRef
    /\ selectedLine # null
    /\ scrubPosition = Int2R(lines[selectedLine + 1].begin)
    /\ gestures = MaxGestures

\* C20: a mouse-down at zoom <= 1 changes nothing; at zoom > 1 it sets
\* isDragging, records the pointer position and the current pan offset as
\* the drag start, and clears the did-drag flag.
C20_DragStart ==
    [][handleMouseDown =>
           IF RLe(zoom, Int2R(1))
           THEN UNCHANGED vars
           ELSE /\ isDragging'
                /\ dragStartRef'.x = pointerX
                /\ dragStartRef'.offset = panOffset
                /\ ~didDragRef']_<<vars, gestures>>

\* a drag has just started away from the left edge of the track, on a
\* window that had been panned away from 0
C20_Witness ==
    /\ isDragging
    /\ ~didDragRef
    /\ dragStartRef.x = pointerX
    /\ pointerX > 0
    /\ dragStartRef.offset = panOffset
    /\ RLt(Int2R(0), panOffset)
    /\ RLt(Int2R(1), zoom)

\* the pan offset that the last mouse move of the drag asked for
DragTarget ==
    LET wanted == RSub(dragStartRef.offset,
                       RMul(Norm(pointerX - dragStartRef.x, TrackWidth), visibleDuration))
    IN  IF RLt(wanted, Int2R(0)) THEN Int2R(0)
        ELSE IF RLt(maxPanOffset, wanted) THEN maxPanOffset ELSE wanted

\* C21 as claimed, with the pan update of a mouse move applied at once: a
\* mouse move outside a drag changes nothing; the pan update of a mouse move
\* in a drag sets panOffset to dragStartOffset - (pointerX - dragStartX) /
\* trackWidth * visibleDuration clamped to [0, maxPanOffset], which is not
\* above the drag-start offset when the pointer is right of the drag start
\* and not below it when the pointer is left of the drag start.
C21_DragMove ==
    [][/\ \A x \in PointerXs :
              (~isDragging /\ handleMouseMove(x)) =>
                  UNCHANGED <<ttml, zoom, panOffset, selectedLine, scrubPosition,
                              isDragging, dragStartRef, didDragRef, rafRef, timers,
                              clickPending>>
       /\ (isDragging /\ FrameCallback) =>
              /\ panOffset' = DragTarget
              /\ pointerX >= dragStartRef.x => RLe(panOffset', dragStartRef.offset)
              /\ pointerX <= dragStartRef.x => RLe(dragStartRef.offset, panOffset')]_vars

\* C22: the gridline interval is 10 s when zoom >= 4, else 30 s when
\* zoom >= 2, else 30 s when totalDuration <= 180 s, else 60 s; the emitted
\* markers are multiples of that interval.
C22_MarkerInterval ==
    markers # undefined =>
        LET seconds == IF ~RLt(deps.zoom, Int2R(4)) THEN 10
                       ELSE IF ~RLt(deps.zoom, Int2R(2)) THEN 30
                       ELSE IF ~RLt(Int2R(180 * 1000), deps.totalDuration) THEN 30
                       ELSE 60
        IN  /\ MarkerInterval(deps.zoom, deps.totalDuration) = seconds * 1000
            /\ \A k \in 1..Len(markers[1]) :
                   /\ markers[1][k][2] = 1
                   /\ markers[1][k][1] % (seconds * 1000) = 0
            /\ \A k \in 1..(Len(markers[1]) - 1) :
                   markers[1][k + 1][1] - markers[1][k][1] = seconds * 1000

\* a document longer than 180 s at a zoom below 2 has markers 60 s apart
C22_Witness ==
    /\ markers # undefined
    /\ RLt(deps.zoom, Int2R(2))
    /\ RLt(Int2R(180000), deps.totalDuration)
    /\ Len(markers[1]) >= 2
    /\ markers[1][2] = RAdd(markers[1][1], Int2R(60000))

\* the markers of the evaluation, as a set of times
Emitted == {markers[1][k] : k \in 1..Len(markers[1])}

\* the right edge of the visible window
WindowEnd == RAdd(deps.panOffset, RDiv(deps.totalDuration, deps.zoom))

\* the multiples of the gridline interval up to one interval past the
\* longest document
Multiples ==
    LET interval == MarkerInterval(deps.zoom, deps.totalDuration)
    IN  {Int2R(k * interval) : k \in 0..(deps.totalDuration[1] \div interval + 1)}

\* C23 as claimed: every multiple of the interval inside
\* [panOffset, panOffset + visibleDuration] is emitted, and no marker is
\* earlier than panOffset or later than panOffset + visibleDuration +
\* interval.
C23_MarkersInWindow ==
    markers # undefined =>
        LET interval == Int2R(MarkerInterval(deps.zoom, deps.totalDuration))
        IN  /\ \A m \in Multiples :
                   (RLe(deps.panOffset, m) /\ RLe(m, WindowEnd)) => m \in Emitted
            /\ \A m \in Emitted :
                   /\ RLe(deps.panOffset, m)
                   /\ RLe(m, RAdd(WindowEnd, interval))

\* C23 as amended: the markers are, in increasing order, exactly the
\* multiples m of the interval with 0 <= m <= totalDuration and
\* panOffset - interval < m <= panOffset + visibleDuration + interval.
C23_MarkersExact ==
    markers # undefined =>
        LET interval == Int2R(MarkerInterval(deps.zoom, deps.totalDuration))
        IN  /\ Emitted = {m \in Multiples :
                              /\ RLe(m, deps.totalDuration)
                              /\ RLt(RSub(deps.panOffset, interval), m)
                              /\ RLe(m, RAdd(WindowEnd, interval))}
            /\ \A k \in 1..(Len(markers[1]) - 1) : RLt(markers[1][k], markers[1][k + 1])

\* a marker left of the window and a marker right of it have been emitted
C23_Witness ==
    /\ markers # undefined
    /\ \E m \in Emitted : RLt(m, deps.panOffset)
    /\ \E m \in Emitted : RLt(WindowEnd, m)

\* C24: a reset of the zoom sets zoom = 1 and panOffset = 0 and leaves
\* selectedLine and scrubPosition unchanged, in whatever state it is handled.
C24_ResetZoom ==
    [][handleResetZoom =>
           /\ zoom' = Int2R(1)
           /\ panOffset' = Int2R(0)
           /\ UNCHANGED <<selectedLine, scrubPosition>>]_vars

\* the view is back at zoom 1 and pan 0, and the scrub position and the
\* selection are still those of a click made on the window [833.3, 4166.7]
C24_Witness ==
    /\ ttml = 1
    /\ zoom = Int2R(1)
    /\ panOffset = Int2R(0)
    /\ scrubPosition = <<2500, 3>>
    /\ selectedLine = 0
    /\ gestures = MaxGestures

\* no line contains the time under the pointer
InGap == \A i \in LineIndices : ~Contains(i, PointerTime)

C26_ClickWhileDraggingIgnored ==
    [][(isDragging /\ TimelineClick) =>
           UNCHANGED <<scrubPosition, selectedLine, zoom, panOffset>>]_<<vars, gestures>>

\* a click has been handled in a drag that has not moved, on the window the
\* zoom-in button produced, and nothing is scrubbed or selected
C26_Witness ==
    /\ isDragging
    /\ clickedInDrag
    /\ ~didDragRef
    /\ totalDuration # Int2R(0)
    /\ zoom = <<3, 2>>
    /\ panOffset = dragStartRef.offset
    /\ scrubPosition = NullTime
    /\ selectedLine = null

\* the elements below el that satisfy Test, as paths in document order
Descendants(el, Test(_)) ==
    SelectSeq(ElementPaths(el), LAMBDA path : Test(NodeAt(el, path)))

IsParagraph(el) == el.tag = "p"

\* an element that carries a timing attribute
IsTimed(el) == "begin" \in DOMAIN el.attrs \/ "end" \in DOMAIN el.attrs

\* a span that carries a begin attribute
IsSpanWithBegin(el) == el.tag = "span" /\ "begin" \in DOMAIN el.attrs

\* the result has one line per paragraph element of the text, in document
\* order, and the words of each line are the elements below its paragraph
\* that satisfy IsWord, in document order, none dropped and none moved
LinesAndWords(IsWord(_)) ==
    LET ps == Descendants(SourceRoot, IsParagraph)
    IN  /\ Len(parsed[1]) = Len(ps)
        /\ \A i \in 1..Len(ps) :
               LET p == NodeAt(SourceRoot, ps[i])
                   line == parsed[1][i]
                   spans == Descendants(p, IsWord)
               IN  /\ line.text = textContent(p)
                   /\ line.key = getAttribute(p, "itunes:key")
                   /\ Len(line.words) = Len(spans)
                   /\ \A j \in 1..Len(spans) :
                          LET span == NodeAt(p, spans[j])
                          IN  /\ line.words[j].text = textContent(span)
                              /\ line.words[j].begin =
                                     parseTime(getAttribute(span, "begin"))
                              /\ line.words[j].end =
                                     parseTime(getAttribute(span, "end"))

ContainerKeys ==
    {getAttribute(NodeAt(SourceRoot, TransliterationTexts(SourceRoot)[k]), "for") :
         k \in 1..Len(TransliterationTexts(SourceRoot))} \ {<< >>}

\* C28: for a well-formed text, a line has a transliteration attached if and
\* only if its paragraph has a key and some transliteration container has a
\* for attribute equal to that key.
C28_AttachedIffKeyMatches ==
    (parsed # undefined /\ platform # "none" /\ WellFormed) =>
        LET ps == Descendants(SourceRoot, IsParagraph)
        IN  /\ Len(parsed[1]) = Len(ps)
            /\ \A i \in 1..Len(ps) :
                   LET attrs == NodeAt(SourceRoot, ps[i]).attrs
                   IN  (parsed[1][i].transliteration # undefined)
                           <=> /\ "itunes:key" \in DOMAIN attrs
                               /\ attrs["itunes:key"] \in ContainerKeys

\* a text with a container for L2, a line with key L2 and a line with key L1
\* was parsed: the first line has a transliteration, the second has none
C28_Witness ==
    /\ parsed # undefined
    /\ WellFormed
    /\ ContainerKeys = {L2}
    /\ \E i \in 1..Len(parsed[1]) :
           parsed[1][i].key = L2 /\ parsed[1][i].transliteration # undefined
    /\ \E i \in 1..Len(parsed[1]) :
           parsed[1][i].key = L1 /\ parsed[1][i].transliteration = undefined

\* C29: two calls of the parser on the same markup text return equal line
\* sequences, whatever was parsed in between, and each call returns what a
\* call on its text alone returns: no line and no transliteration entry of
\* another call shows in it.
C29_CallsIndependent ==
    /\ \A i, j \in 1..Len(calls) :
           calls[i].markup = calls[j].markup => calls[i].lines = calls[j].lines
    /\ \A i \in 1..Len(calls) :
           /\ calls[i].lines = parseTTML(calls[i].markup, platform)
           /\ \A k \in 1..Len(calls[i].lines) :
                  calls[i].lines[k].transliteration # undefined
                      => \E item \in {calls[i].markup.items[n] :
                                         n \in 1..Len(calls[i].markup.items)} :
                             IsContainer(item)

\* a line with key L1 and no container was parsed, then a text with a
\* container for L1, then the first text again: both results for the first
\* text are one line without a transliteration
C29_Witness ==
    /\ Len(calls) = 3
    /\ platform # "none"
    /\ calls[1].markup = Markup(<<Keyed(L1, La)>>, 0)
    /\ calls[2].markup = Markup(<<Keyed(L1, La), Container(L1, Na)>>, 0)
    /\ calls[3].markup = calls[1].markup
    /\ calls[2].lines[1].transliteration # undefined
    /\ Len(calls[3].lines) = 1
    /\ calls[3].lines[1].transliteration = undefined

\* C30 as claimed: an animation-frame pan update that is applied after a
\* wheel, zoom-out or reset step lowered the zoom leaves panOffset at or
\* below totalDuration - visibleDuration for the zoom then in effect.
C30_DeferredPanInRange ==
    [][(FrameCallback /\ zoomLowered) =>
           RLe(panOffset', RSub(totalDuration, RDiv(totalDuration, zoom')))]_vars

\* C31 as claimed: when a drag ends, by a release or by the pointer leaving
\* the track, panOffset is the offset computed by the last mouse move of the
\* drag, as it is when every pan update is applied at once.
C31_CoalescedDragOutcome ==
    [][(isDragging /\ rafRef # NullTime /\ (handleMouseUp \/ handleMouseLeave))
           => panOffset' = rafRef]_vars

\* C32 as claimed: the did-drag flag is sticky within one drag.  Once a mouse
\* move of the current drag has been more than DragThreshold pixels from the
\* drag start and has set didDragRef, every step that leaves that drag in
\* progress (no release, no pointer leave, no new mouse down) leaves the flag
\* set, wherever the pointer is.
C32_FlagStickyWithinDrag ==
    [][(isDragging /\ dragMoved /\ didDragRef /\ isDragging' /\ dragMoved')
           => didDragRef']_vars

\* C33: click suppression never outlives its drag.  (1) Whenever the flag is
\* set and no drag is in progress, the flag is eventually reset.  (2) A
\* pointer leave during a drag clears isDragging and the flag in that step.
\* (3) The flag is only ever set by a step of a drag in progress, so it stays
\* clear after a reset until a new drag.  (4) A click on the track made with
\* no drag in progress and the flag clear, on a document of positive
\* duration, is processed.
C33_SuppressionEndsWithDrag ==
    /\ [](((~isDragging) /\ didDragRef) => <>(~didDragRef))
    /\ [][(isDragging /\ handleMouseLeave) => (~isDragging' /\ ~didDragRef')]_vars
    /\ [][((~didDragRef) /\ didDragRef') => (isDragging /\ isDragging')]_vars
    /\ [][(TimelineClick /\ ~isDragging /\ ~didDragRef /\ totalDuration # Int2R(0))
             => TreatedAsClick]_vars

\* the zoom-in button, a drag from x = 0 to the right edge that pans to 0,
\* its release and suppressed click, the timer, and then a click at the
\* middle of the track, which is processed
C33_Witness ==
    /\ dragMoved
    /\ ~isDragging
    /\ ~didDragRef
    /\ timers = 0
    /\ ~clickPending
    /\ gestures = 3
    /\ zoom = <<3, 2>>
    /\ panOffset = Int2R(0)
    /\ pointerX = TrackWidth \div 2
    /\ scrubPosition = PointerTime

\* C34 as claimed: word and text classification agree.  For every timed
\* span of a parsed paragraph, the word has isBackground = true exactly
\* when the text of the span is collected into bgText, that is when the
\* span itself or an element between it and the paragraph carries the
\* background-role marker.
C34_WordAndTextAgree ==
    (parsed # undefined /\ platform # "none" /\ OneParagraph) =>
        LET p == markup.items[1]
            spans == TimedSpans(p)
            words == parsed[1][1].words
        IN  \A j \in 1..Len(spans) :
                (words[j].isBackground = Some(TRUE))
                    <=> (\/ HasBackgroundRole(NodeAt(p, spans[j]))
                         \/ MarkedBetween(p, spans[j]))

\* C35: selection and view are independent.  A click on the track, on a
\* line bar or on a line item changes neither zoom nor panOffset, and a
\* wheel step, the three zoom buttons, a mouse down, a mouse move and its
\* deferred pan update, a release and a pointer leave change neither
\* selectedLine nor scrubPosition.
C35_SelectionViewIndependent ==
    [][/\ (\/ TimelineClick
           \/ \E i \in LineIndices : BarClick(i) \/ LineItemClick(i))
          => UNCHANGED <<zoom, panOffset>>
       /\ (\/ \E deltaY \in {-1, 1} : handleWheel(deltaY)
           \/ handleZoomIn
           \/ handleZoomOut
           \/ handleResetZoom
           \/ handleMouseDown
           \/ \E x \in PointerXs : handleMouseMove(x)
           \/ FrameCallback
           \/ handleMouseUp
           \/ handleMouseLeave)
          => UNCHANGED <<selectedLine, scrubPosition>>]_vars

\* a click at the right edge of the unzoomed track of the 5000 ms document,
\* then the zoom-in button: the view has changed, the selection of the
\* click is still there
C35_Witness ==
    /\ totalDuration = Int2R(5000)
    /\ gestures = 2
    /\ zoom = <<3, 2>>
    /\ panOffset = <<2500, 3>>
    /\ selectedLine = 1
    /\ scrubPosition = Int2R(5000)

\* C36 as claimed: in every reachable state selectedLine is none or an
\* index of the current line sequence, and scrubPosition is none or a time
\* within [0, totalDuration] of the current document.
C36_SelectionWithinDocument ==
    /\ selectedLine = null \/ selectedLine \in LineIndices
    /\ \/ scrubPosition = NullTime
       \/ RLe(Int2R(0), scrubPosition) /\ RLe(scrubPosition, totalDuration)

\* C37: within one drag the pan offset depends only on the drag start and
\* the latest pointer position.  The pan update of a mouse move sets
\* panOffset to the clamped offset of the pointer position relative to the
\* drag start, in which neither the offset before the move nor an earlier
\* pointer position occurs; and a mouse move to the position whose offset is
\* already in place schedules that same offset again.
C37_DragPathIndependent ==
    [][/\ (isDragging /\ FrameCallback) => panOffset' = DragTarget
       /\ (isDragging /\ rafRef = NullTime /\ panOffset = DragTarget
               /\ handleMouseMove(pointerX))
          => rafRef' = panOffset]_vars

\* after a zoom-in, a drag went more than DragThreshold pixels away, where
\* the offset was clamped, and came back to where it started: the offset is
\* the drag-start offset again, strictly inside its range
C37_Witness ==
    /\ gestures = 2
    /\ isDragging
    /\ dragMoved
    /\ rafRef = NullTime
    /\ pointerX = dragStartRef.x
    /\ panOffset = dragStartRef.offset
    /\ RLt(Int2R(0), panOffset)
    /\ RLt(panOffset, maxPanOffset)

\* C38: a zoom step that is fully absorbed by clamping changes nothing.  In
\* every state with zoom and panOffset in range, at zoom = 1 the wheel
\* zoom-out and the zoom-out button compute the zoom and the panOffset the
\* state already has, and at zoom = 20 so do the wheel zoom-in and the
\* zoom-in button, with the pointer at any pixel of the track.
C38_AbsorbedZoomStep ==
    (ZoomInRange /\ PanInRange) =>
        /\ zoom = Int2R(MinZoom) =>
               /\ WheelZoom(zoom, 1) = zoom
               /\ ZoomOutZoom(zoom) = zoom
               /\ ButtonPan(totalDuration, panOffset, visibleDuration, zoom) = panOffset
               /\ \A x \in 0..TrackWidth :
                      WheelPan(totalDuration, panOffset, visibleDuration,
                               Percentage(x), zoom) = panOffset
        /\ zoom = Int2R(MaxZoom) =>
               /\ WheelZoom(zoom, -1) = zoom
               /\ ZoomInZoom(zoom) = zoom
               /\ ButtonPan(totalDuration, panOffset, visibleDuration, zoom) = panOffset
               /\ \A x \in 0..TrackWidth :
                      WheelPan(totalDuration, panOffset, visibleDuration,
                               Percentage(x), zoom) = panOffset

\* the zoom-in button pressed up to zoom = 20 on the 5000 ms document, the
\* pointer moved to the right edge, and one wheel step in, which is the only
\* gesture made and has changed nothing
C38_Witness ==
    /\ totalDuration = Int2R(5000)
    /\ zoom = Int2R(MaxZoom)
    /\ panOffset = Int2R(2375)
    /\ pointerX = TrackWidth
    /\ gestures = 1
    /\ selectedLine = null
    /\ scrubPosition = NullTime
    /\ ~isDragging
    /\ dragStartRef.offset = Int2R(0)

\* C39: when several transliteration containers are for the same key, the
\* line with that key gets the text and the words of the last of them in
\* document order, and the words of a transliteration are the timed spans
\* of that one container, in document order.
C39_LastContainerWins ==
    (parsed # undefined /\ platform # "none" /\ WellFormed) =>
        LET ps == Descendants(SourceRoot, IsParagraph)
            texts == TransliterationTexts(SourceRoot)
        IN  /\ Len(parsed[1]) = Len(ps)
            /\ \A i \in 1..Len(ps) :
                   LET key == getAttribute(NodeAt(SourceRoot, ps[i]), "itunes:key")
                       same == {k \in 1..Len(texts) :
                                    getAttribute(NodeAt(SourceRoot, texts[k]), "for") = key}
                   IN  (key # << >> /\ same # {}) =>
                           LET last == NodeAt(SourceRoot,
                                              texts[CHOOSE k \in same :
                                                        \A m \in same : m <= k])
                               spans == Descendants(last, IsSpanWithBegin)
                               given == parsed[1][i].transliteration
                           IN  /\ given # undefined
                               /\ given[1].text = textContent(last)
                               /\ Len(given[1].words) = Len(spans)
                               /\ \A j \in 1..Len(spans) :
                                      LET span == NodeAt(last, spans[j])
                                      IN  given[1].words[j] =
                                              [begin |-> parseTime(getAttribute(span, "begin")),
                                               end |-> parseTime(getAttribute(span, "end")),
                                               text |-> textContent(span)]

\* two containers for the key of a line, one before the line and one after
\* it: the first has one word, the second has two timed spans around an
\* untimed one; the line has the text and the two words of the second
C39_Witness ==
    /\ Len(markup.items) = 3
    /\ markup.error = 0
    /\ markup.items[1] = Container(L2, Na)
    /\ markup.items[2] = El("div", NoAttrs, <<Keyed(L2, La)>>)
    /\ markup.items[3].tag = "transliteration"
    /\ Len(ElementPaths(markup.items[3])) = 4
    /\ platform # "none"
    /\ parsed # undefined
    /\ Len(parsed[1]) = 1
    /\ parsed[1][1].transliteration # undefined
    /\ parsed[1][1].transliteration[1].text = La \o Na \o Na
    /\ Len(parsed[1][1].transliteration[1].words) = 2
    /\ parsed[1][1].transliteration[1].words[1].text = La
    /\ parsed[1][1].transliteration[1].words[2].text = Na
====
